---- MODULE Spec2Model ----
(***************************************************************************)
(* Model of app.py: create_dummy_file(filename, size_in_mb) and main().    *)
(*                                                                         *)
(* Strings.  Every str and bytes value the program handles is a prefix of  *)
(* the endless repetition of a short unit, so a value is kept as the       *)
(* record [unit |-> <<c1, ..., cP>>, n |-> length]: element i (from 0) is  *)
(* unit[(i % P) + 1].  The record is exact (nothing is lost) and lets the  *)
(* model run at the program's real sizes (1..15 MiB).                      *)
(*                                                                         *)
(* Files.  A file's content is a sequence of such chunks, in the order     *)
(* they were written; its size is the sum of the chunks' lengths.          *)
(*                                                                         *)
(* Environment.  The file system may refuse any request (OSError), and     *)
(* the platform's line separator (os.linesep) is "\n" or "\r\n": the file  *)
(* is opened in text mode with the default newline handling, which writes  *)
(* every "\n" as os.linesep.                                               *)
(***************************************************************************)
EXTENDS Integers, Sequences, FiniteSets

VARIABLES
    pc,        \* where control is: "main", "loop", "enter", "open", "write",
               \*   "exit", "print", "done", "failed"
    entry,     \* "main": the script was run; "call": create_dummy_file was called directly
    size,      \* main's loop variable
    locals,    \* create_dummy_file's frame
    dir,       \* what is at the path dummy_files: "absent", "dir" or "file"
    fs,        \* fs[k]: content of dummy_files/dummy_<k>MB.txt, or NoFile
    handles,   \* the open file objects (by path)
    stdout,    \* the lines printed by this run
    linesep,   \* os.linesep of the platform
    run,       \* number of the current run of the script
    status,    \* how the runs (or the direct call) that are over ended: "ok" or "error"
    fs0,       \* the files as they were when this run started
    calls      \* the create_dummy_file calls of this run: <<filename, size_in_mb>>

vars == <<pc, entry, size, locals, dir, fs, handles, stdout, linesep, run,
          status, fs0, calls>>

----------------------------------------------------------------------------
\* Bounds of the model.

\* the script is run at most this many times in succession
MaxRuns == 2
\* files dummy_1MB.txt .. dummy_<MaxStale>MB.txt may exist before the first run
MaxStale == 2
\* a direct call passes a size in -MaxNeg .. MaxDirect
MaxNeg == 2
MaxDirect == 2
\* a direct call writes to one of dummy_1MB.txt .. dummy_<MaxDirectPath>MB.txt
MaxDirectPath == 2

----------------------------------------------------------------------------
\* Characters and strings.

LF == "\n"
CR == "\r"

Min(a, b) == IF a <= b THEN a ELSE b
Max(a, b) == IF a >= b THEN a ELSE b

\* the str literal of line 6
message ==
    << "T","h","i","s"," ","f","i","l","e"," ","i","s"," ",
       "g","e","n","e","r","a","t","e","d"," ",
       "t","h","r","o","u","g","h"," ",
       "p","y","t","h","o","n"," ","b","y"," ",
       "M","u","j","e","e","b"," ","a","n","d"," ",
       "H","a","y","y","a","n"," ","f","o","r"," ",
       "R","e","s","e","a","r","c","h"," ",
       "R","e","p","o","r","t", LF >>

\* a str value from its characters
StrLit(s) == [unit |-> s, n |-> Len(s)]

EmptyStr == [unit |-> <<>>, n |-> 0]

\* str.encode('utf-8') of one character: every character of the message is
\* ASCII, which UTF-8 encodes as the one byte of the same value
Utf8Char(c) == <<c>>

RECURSIVE Utf8Encode(_)
Utf8Encode(s) == IF s = <<>> THEN <<>> ELSE Utf8Char(Head(s)) \o Utf8Encode(Tail(s))

\* math.ceil(a / b) for b > 0 (a / b is a float; for the sizes here the
\* float quotient is never within rounding distance of an integer unless it
\* is one)
FloorDiv(a, b) == a \div b
CeilDiv(a, b) == -((-a) \div b)

\* s * k: str repetition; k <= 0 gives the empty string
StrMul(s, k) == IF k > 0 /\ s.n > 0 THEN [unit |-> s.unit, n |-> s.n * k] ELSE EmptyStr

\* s[:stop]: a negative stop counts from the end
StrSliceTo(s, stop) ==
    LET m == IF stop >= 0 THEN Min(stop, s.n) ELSE Max(s.n + stop, 0)
    IN  IF m = 0 THEN EmptyStr ELSE [unit |-> s.unit, n |-> m]

\* element i (from 0) of a str or bytes value
At(s, i) == s.unit[(i % Len(s.unit)) + 1]

\* the text layer's newline translation on writing: "\n" becomes os.linesep,
\* every other character its one byte
TranslateChar(c, sep) == IF c = LF THEN sep ELSE <<c>>

RECURSIVE Translate(_, _)
Translate(s, sep) ==
    IF s = <<>> THEN <<>> ELSE TranslateChar(Head(s), sep) \o Translate(Tail(s), sep)

\* the bytes a text-mode file receives for the str s: translation is
\* character by character, so whole units translate to whole units and the
\* last, partial unit to the translation of that part
TextEncode(s, sep) ==
    IF s.n = 0 THEN EmptyStr
    ELSE LET P    == Len(s.unit)
             full == s.n \div P
             part == SubSeq(s.unit, 1, s.n % P)
             u    == Translate(s.unit, sep)
         IN  [unit |-> u, n |-> full * Len(u) + Len(Translate(part, sep))]

----------------------------------------------------------------------------
\* Files.

\* main's loop: range(1, 16)
RangeStart == 1
RangeStop == 16

NoFile == "absent"

\* the files dummy_files/dummy_<k>MB.txt, by k
Paths == RangeStart..(RangeStop - 1)

\* what an earlier program left in a file
StaleChunk == [unit |-> <<"x">>, n |-> 7]

RECURSIVE FileSize(_)
FileSize(f) == IF f = <<>> THEN 0 ELSE Head(f).n + FileSize(Tail(f))

\* byte i (from 0) of a file, i < FileSize(f)
RECURSIVE FileByteAt(_, _)
FileByteAt(f, i) ==
    IF i < Head(f).n THEN At(Head(f), i) ELSE FileByteAt(Tail(f), i - Head(f).n)

\* the file with the bytes b written at its end
FileAppend(f, b) == IF b.n = 0 THEN f ELSE Append(f, b)

\* the first k bytes of b
Prefix(b, k) == IF k = 0 THEN EmptyStr ELSE [unit |-> b.unit, n |-> Min(k, b.n)]

\* how much of a write of `total` bytes may have reached the disk when the
\* write returns or fails: nothing, half, all
FlushedLens(total) == {0, total \div 2, total}

----------------------------------------------------------------------------
\* the frame of create_dummy_file when no call is active
NoLocals ==
    [filename |-> 0, size_in_mb |-> 0, message_bytes |-> 0, size_in_bytes |-> 0,
     repetitions |-> 0, content |-> EmptyStr, base |-> <<>>, exc |-> FALSE]

\* the frame on entry: the arguments are bound, nothing is computed yet
Frame(filename, size_in_mb) ==
    [NoLocals EXCEPT !.filename = filename, !.size_in_mb = size_in_mb]

\* lines 7, 8, 10
message_bytes == Len(Utf8Encode(message))
size_in_bytes(size_in_mb) == size_in_mb * 1024 * 1024
repetitions(size_in_mb) == CeilDiv(size_in_bytes(size_in_mb), message_bytes)

\* line 13 and the argument of line 14
content(reps) == StrMul(StrLit(message), reps)
written(l) == StrSliceTo(l.content, l.size_in_bytes)

\* the confirmation line of line 16
ConfirmationTwice(l) ==
    << [filename |-> l.filename, size_in_mb |-> l.size_in_mb],
       [filename |-> l.filename, size_in_mb |-> l.size_in_mb] >>
Confirmation(l) == << [filename |-> l.filename, size_in_mb |-> l.size_in_mb] >>

\* open(filename, 'w') on an existing file: mode 'w' truncates it
OpenAppendMode(old) == IF old = NoFile THEN <<>> ELSE old
OpenMode(old) == <<>>

\* the with statement's exit closes the file, whether or not the body raised
ReleasedUnlessError(p, exc) == IF exc THEN handles ELSE handles \ {p}
Released(p, exc) == handles \ {p}

\* the exist_ok argument of os.makedirs (line 20)
exist_ok_False == FALSE
exist_ok == TRUE

\* the path of the file of a size, os.path.join(output_dir, f"dummy_{size}MB.txt"):
\* the files are named by their number
filename(s) == s

\* the range's step
NextSizeSkip(s) == s + 2
NextSize(s) == s + 1

----------------------------------------------------------------------------
\* Initial states.

Listings ==
    { f \in [Paths -> {NoFile, <<StaleChunk>>}] : \A k \in Paths : k > MaxStale => f[k] = NoFile }

NoFiles == [k \in Paths |-> NoFile]

DirectSizes == (0 - MaxNeg)..MaxDirect
DirectPaths == 1..MaxDirectPath

Init ==
    /\ linesep \in {<<LF>>, <<CR, LF>>}
    /\ dir \in {"absent", "file", "dir"}
    /\ fs \in (IF dir = "dir" THEN Listings ELSE {NoFiles})
    /\ fs0 = fs
    /\ entry \in {"main", "call"}
    /\ \/ /\ entry = "main"
          /\ pc = "main"
          /\ locals = NoLocals
          /\ calls = <<>>
       \/ /\ entry = "call"
          /\ pc = "enter"
          /\ \E p \in DirectPaths, s \in DirectSizes :
                /\ locals = Frame(p, s)
                /\ calls = << <<p, s>> >>
    /\ size = 0
    /\ handles = {}
    /\ stdout = <<>>
    /\ run = 1
    /\ status = <<>>

----------------------------------------------------------------------------
\* An exception nobody catches: neither function has a handler, so it ends
\* the call and, in the script, the process (exit status 1).
PropagateSwallowed ==
    /\ pc' = IF entry = "main" /\ pc # "main" THEN "loop" ELSE "failed"
    /\ size' = IF entry = "main" /\ pc # "main" THEN NextSize(size) ELSE size
    /\ status' = IF entry = "main" /\ pc # "main" THEN status ELSE Append(status, "error")
Propagate ==
    /\ pc' = "failed"
    /\ size' = size
    /\ status' = Append(status, "error")

\* line 20: os.makedirs(output_dir, exist_ok=True)
Makedirs ==
    /\ pc = "main"
    /\ \/ /\ dir = "dir"
          /\ IF exist_ok
             THEN pc' = "loop" /\ size' = RangeStart /\ status' = status
             ELSE Propagate
          /\ dir' = dir
       \/ /\ dir = "absent"
          /\ dir' = "dir"
          /\ pc' = "loop" /\ size' = RangeStart /\ status' = status
       \/ /\ dir \in {"absent", "file"}
          /\ dir' = dir
          /\ Propagate
    /\ UNCHANGED <<entry, locals, fs, handles, stdout, linesep, run, fs0, calls>>

\* lines 22-24: the next size of the range, and the call
LoopCall ==
    /\ pc = "loop"
    /\ size < RangeStop
    /\ pc' = "enter"
    /\ locals' = Frame(filename(size), size)
    /\ calls' = Append(calls, <<filename(size), size>>)
    /\ UNCHANGED <<entry, size, dir, fs, handles, stdout, linesep, run, status, fs0>>

\* line 22: the range is exhausted; main returns and the process exits 0
LoopEnd ==
    /\ pc = "loop"
    /\ size >= RangeStop
    /\ pc' = "done"
    /\ status' = Append(status, "ok")
    /\ UNCHANGED <<entry, size, locals, dir, fs, handles, stdout, linesep, run, fs0, calls>>

\* lines 6-10
Compute ==
    /\ pc = "enter"
    /\ locals' = [locals EXCEPT !.message_bytes = message_bytes,
                                !.size_in_bytes = size_in_bytes(locals.size_in_mb),
                                !.repetitions = repetitions(locals.size_in_mb)]
    /\ pc' = "open"
    /\ UNCHANGED <<entry, size, dir, fs, handles, stdout, linesep, run, status, fs0, calls>>

\* line 12: open(filename, 'w')
Open ==
    /\ pc = "open"
    /\ \/ /\ dir = "dir"
          /\ fs' = [fs EXCEPT ![locals.filename] = OpenMode(@)]
          /\ handles' = handles \cup {locals.filename}
          /\ locals' = [locals EXCEPT !.base = fs'[locals.filename]]
          /\ pc' = "write" /\ size' = size /\ status' = status
       \/ /\ Propagate
          /\ UNCHANGED <<fs, handles, locals>>
    /\ UNCHANGED <<entry, dir, stdout, linesep, run, fs0, calls>>

\* lines 13-14: build the content and write its first size_in_bytes
\* characters; the write may fail with part of the bytes on the disk
Write ==
    /\ pc = "write"
    /\ LET c == content(locals.repetitions)
           l == [locals EXCEPT !.content = c]
           b == TextEncode(written(l), linesep)
       IN  \E k \in FlushedLens(b.n), failed \in BOOLEAN :
              /\ failed => k < b.n \/ b.n = 0
              /\ fs' = [fs EXCEPT ![l.filename] = FileAppend(l.base, Prefix(b, k))]
              /\ locals' = [l EXCEPT !.exc = failed]
    /\ pc' = "exit"
    /\ UNCHANGED <<entry, size, dir, handles, stdout, linesep, run, status, fs0, calls>>

\* line 12, the end of the with block: close the file (flushing what is
\* buffered), then go on or let the exception through
Exit ==
    /\ pc = "exit"
    /\ handles' = Released(locals.filename, locals.exc)
    /\ \/ /\ ~locals.exc
          /\ fs' = [fs EXCEPT ![locals.filename] =
                        FileAppend(locals.base, TextEncode(written(locals), linesep))]
          /\ pc' = "print" /\ size' = size /\ status' = status
       \/ /\ fs' = fs
          /\ Propagate
    /\ UNCHANGED <<entry, locals, dir, stdout, linesep, run, fs0, calls>>

\* line 16, and the return to the caller
PrintLine ==
    /\ pc = "print"
    /\ stdout' = stdout \o Confirmation(locals)
    /\ locals' = NoLocals
    /\ IF entry = "main"
       THEN pc' = "loop" /\ size' = NextSize(size) /\ status' = status
       ELSE pc' = "done" /\ size' = size /\ status' = Append(status, "ok")
    /\ UNCHANGED <<entry, dir, fs, handles, linesep, run, fs0, calls>>

\* the script is run again after a run that succeeded
Rerun ==
    /\ entry = "main"
    /\ pc = "done"
    /\ run < MaxRuns
    /\ run' = run + 1
    /\ pc' = "main"
    /\ size' = 0
    /\ locals' = NoLocals
    /\ stdout' = <<>>
    /\ calls' = <<>>
    /\ fs0' = fs
    /\ handles' = {}
    /\ UNCHANGED <<entry, dir, fs, linesep, status>>

Next ==
    \/ Makedirs
    \/ LoopCall
    \/ LoopEnd
    \/ Compute
    \/ Open
    \/ Write
    \/ Exit
    \/ PrintLine
    \/ Rerun

Spec == Init /\ [][Next]_vars

----------------------------------------------------------------------------
\* What the claims speak of.

\* the size a file of N MB is to have
MiB == 1048576

\* the bytes create_dummy_file(_, N) hands to the file, as the file holds
\* them once the call has returned
Complete(N) ==
    FileAppend(<<>>, TextEncode(StrSliceTo(content(repetitions(N)), size_in_bytes(N)), linesep))

\* the script has run to its end
Completed == entry = "main" /\ pc = "done"

\* control is inside create_dummy_file
InCall == pc \in {"enter", "open", "write", "exit", "print"}

\* the offsets of a file of n bytes that are looked at: the first three
\* repetitions of the message and the last one
Probes(n) == {i \in 0..(3 * message_bytes) : i < n} \cup {i \in (n - message_bytes)..(n - 1) : i >= 0}

\* C1: after main() has completed, every dummy_<N>MB.txt, N in 1..15, exists
\* and is exactly N * 1048576 bytes long.
C1_ExactSize ==
    Completed => \A N \in Paths : fs[N] # NoFile /\ FileSize(fs[N]) = N * MiB

\* C1, where the platform's line separator is "\n": the sizes are exact.
C1_ExactSizeLF ==
    Completed /\ linesep = <<LF>> =>
        \A N \in Paths : fs[N] # NoFile /\ FileSize(fs[N]) = N * MiB

\* C1, where the platform's line separator is "\r\n": every file is longer
\* by one byte for each "\n" written.
C1_SizeCRLF ==
    Completed /\ linesep = <<CR, LF>> =>
        \A N \in Paths : FileSize(fs[N]) = N * MiB + (N * MiB) \div message_bytes

\* C2: every file written by create_dummy_file is a prefix of the endless
\* repetition of the message: byte i is byte (i mod message_bytes) of the
\* message.
C2_PrefixOfRepetition ==
    Completed =>
        \A N \in Paths : \A i \in Probes(FileSize(fs[N])) :
            FileByteAt(fs[N], i) = message[(i % message_bytes) + 1]

\* C2, where the platform's line separator is "\n".
C2_PrefixOfRepetitionLF ==
    Completed /\ linesep = <<LF>> =>
        \A N \in Paths : \A i \in Probes(FileSize(fs[N])) :
            FileByteAt(fs[N], i) = message[(i % message_bytes) + 1]

\* the call create_dummy_file("dummy_files/dummy_1MB.txt", 1) is running
Calling1MB == InCall /\ locals.filename = 1 /\ locals.size_in_mb = 1

\* that call has returned
Returned1MB ==
    \/ entry = "call" /\ pc = "done" /\ calls = << <<1, 1>> >>
    \/ entry = "main" /\ Len(stdout) >= 1

\* the first k bytes of file f are the first k characters of the message
StartsWithMessage(f, k) ==
    /\ FileSize(f) >= k
    /\ \A i \in 0..(k - 1) : FileByteAt(f, i) = message[i + 1]

C4_NonPositiveRejected ==
    entry = "call" /\ calls[1][2] <= 0 =>
        /\ pc # "done"
        /\ handles = {}
        /\ fs[calls[1][1]] = fs0[calls[1][1]]

\* C5: a second run of main() after a completed one leaves every file as
\* the first run left it, whatever was there before the first run; and a
\* call leaves at its path exactly the bytes it wrote, nothing of what the
\* file held before.
C5_Idempotent ==
    /\ Completed /\ run >= 2 => fs = fs0
    /\ pc = "print" => fs[locals.filename] = Complete(locals.size_in_mb)

\* C5's case: the second run is over, and it ran over the first run's files
C5_Witness ==
    /\ Completed /\ run = 2
    /\ \A N \in Paths : fs0[N] # NoFile /\ FileSize(fs0[N]) > 0
    /\ fs = fs0

\* C6: main() has the directory in place before the first call, and calls
\* create_dummy_file once per size, ascending from 1 to 15, with the path of
\* that size; at most the last call is unfinished, and no file of a size not
\* yet called has been touched.
C6_AscendingCalls ==
    entry = "main" =>
        /\ Len(calls) <= 15
        /\ \A i \in 1..Len(calls) : calls[i] = <<i, i>>
        /\ calls # <<>> => dir = "dir"
        /\ Len(calls) - Len(stdout) = (IF InCall \/ (pc = "failed" /\ calls # <<>>) THEN 1 ELSE 0)
        /\ \A k \in Paths : k > Len(calls) => fs[k] = fs0[k]
        /\ \A k \in 1..Len(stdout) : fs[k] = Complete(k)
        /\ pc = "done" => Len(calls) = 15

\* C6's case: a complete run, 15 calls made
C6_Witness == Completed /\ Len(calls) = 15 /\ calls[15] = <<15, 15>>

\* a step in which the file system refused a request or the body of the
\* with block had raised
ErrorStep ==
    \/ pc = "main" /\ dir' # "dir"
    \/ pc = "open" /\ handles' = handles
    \/ pc = "exit" /\ locals.exc
    \/ pc = "exit" /\ fs' = fs /\ fs[locals.filename] # Complete(locals.size_in_mb)

\* C7: an I/O error ends the run: the step that meets it leads to the failed
\* state and prints nothing; in the failed state no file of a greater size
\* than the failing one has been created or changed, there is no line for
\* the failing size or a later one, the exit status is an error, and
\* nothing more happens.
C7_ErrorEndsRun ==
    /\ [][ErrorStep => pc' = "failed" /\ stdout' = stdout /\ status' = Append(status, "error")]_vars
    /\ [](entry = "main" /\ pc = "failed" =>
            /\ \A k \in Paths : k > size => fs[k] = fs0[k]
            /\ \A i \in 1..Len(stdout) : stdout[i].size_in_mb < size
            /\ status[Len(status)] = "error"
            /\ ~ENABLED Next)

\* C7's case: the write of file 7 failed, and the run is over
C7_Witness ==
    /\ entry = "main" /\ pc = "failed" /\ size = 7 /\ locals.exc
    /\ fs[7] # Complete(7)
    /\ Len(stdout) = 6

\* C8: where dummy_files/ is a directory, the makedirs step does not fail
\* and changes nothing; where it succeeds the directory is there.
C8_MakedirsIdempotent ==
    entry = "main" /\ calls = <<>> =>
        /\ pc = "failed" => dir # "dir"
        /\ pc = "loop" => dir = "dir" /\ fs = fs0

\* C8's case: the step has run over an existing directory that holds files
C8_Witness ==
    /\ entry = "main" /\ pc = "loop" /\ calls = <<>>
    /\ fs0[1] # NoFile
    /\ run = 1

\* C9: the lines printed are those of the files written and closed so far,
\* one each, in ascending order; the line of a file is not printed while
\* the file is open or being written, and a complete run prints 15 lines.
C9_OneLinePerFile ==
    entry = "main" =>
        /\ \A i \in 1..Len(stdout) :
              /\ stdout[i] = [filename |-> i, size_in_mb |-> i]
              /\ i \notin handles
              /\ fs[i] = Complete(i)
        /\ InCall => Len(stdout) = size - 1
        /\ pc = "loop" => Len(stdout) = size - 1
        /\ pc = "done" => Len(stdout) = 15

\* C9's case: a complete run, 15 lines printed
C9_Witness == Completed /\ Len(stdout) = 15 /\ stdout[15].size_in_mb = 15

\* C10: at most one file is open, and none outside the with block: not
\* after create_dummy_file has returned, not after it has failed.
C10_HandleReleased ==
    /\ Cardinality(handles) <= 1
    /\ pc \notin {"write", "exit"} => handles = {}

\* C10's case: the write failed and the call has ended with the error
C10_Witness == pc = "failed" /\ locals.exc /\ handles = {}

====
